---- MODULE Spec2Model ----
(***************************************************************************)
(* Model of tools/utils.py: the retry decorator `retryable`, the batched   *)
(* event fetcher `get_events` with `get_event_batch_with_retries`, and the *)
(* bisection `get_closest_block`.  One behaviour of the model is one call  *)
(* of one of these functions, with its arguments and the chain it talks to *)
(* chosen in Init.                                                         *)
(***************************************************************************)
EXTENDS Integers, Sequences, FiniteSets, TLC

\* ---------------------------------------------------------------- bounds
MaxAttemptsArg == 11     \* largest max_attempts passed to retryable
MaxBlock == 3            \* block numbers of get_events are 0..MaxBlock
MaxBatchSize == 2        \* batch_size of get_events is 0..MaxBatchSize
MaxLatestBlock == 4      \* web3.eth.block_number is 0..MaxLatestBlock
MaxTimestamp == 4        \* block timestamps are 1..MaxTimestamp
NumRpcErrors == 2        \* distinct errors the RPC may raise
NumValues == 2           \* distinct values a retryable function returns
MaxFuncFails == 12       \* a func that recovers does so after 0..MaxFuncFails failures

\* ------------------------------------------------------ program constants
DefaultMaxSleepTime == 256   \* exponential_sleep(attempt, max_sleep_time=256.0)
DefaultRetries == 10         \* get_event_batch_with_retries(..., retries=10)
DefaultMaxAttempts == 10     \* retryable(*, max_attempts: int = 10)
LruMaxSize == 128            \* functools.lru_cache(): maxsize=128
\* closest_diff = 2**256 - 1: larger than every |diff| of two timestamps.
\* TLC integers are 32 bits wide, so the largest of them stands for it.
InitialClosestDiff == 2147483647

VARIABLES
    call,               \* which function this behaviour calls
    pc,                 \* position in that function
    result,             \* how the call ended: returned value or raised error
    last_outcome,       \* how the most recent func / getLogs call ended
    sleeps,             \* sleep(sleep_time) calls of the current retry loop
    \* retryable.wrapped
    max_attempts,
    attempt,
    func_calls,         \* invocations of the wrapped func
    func_fails,         \* the wrapped func raises on its first func_fails
                        \* invocations (Forever: on every invocation)
    \* the chain seen by event.getLogs
    chain_logs,         \* the blocks that hold a matching event record
    \* get_events
    from_block,
    to_block,
    batch_size,
    batch_from_block,
    batch_to_block,
    ret,
    \* get_event_batch_with_retries
    retries,
    initial_retries,
    batch_calls,        \* getLogs invocations of the current sub-range
    last_request,       \* arguments of the most recent getLogs call
    requested,          \* sub-ranges requested so far, retries not repeated
    prev_failures,      \* failed getLogs calls of the sub-range before this one
    \* the chain seen by web3.eth.block_number and web3.eth.get_block
    latest_block_number,
    timestamps,         \* block number -> block['timestamp']
    \* get_closest_block
    wanted_timestamp,
    not_before,
    start_block_number,
    end_block_number,
    closest_block,
    closest_diff,
    probes,             \* block numbers passed to get_block, in order
    \* the lru_cache of is_contract, seen from one address (the tracked one)
    cache_size,         \* entries in the cache
    tracked_rank,       \* 0: the tracked address has no entry; n: its entry
                        \* is the n-th most recently used one
    tracked_value,      \* the value its entry holds
    has_code,           \* what get_code finds at the tracked address
    tracked_returned,   \* what is_contract last returned for it
    ic_last             \* the most recent is_contract call for it

vars == <<call, pc, result, last_outcome, sleeps, max_attempts, attempt,
          func_calls, func_fails, chain_logs, from_block, to_block, batch_size,
          batch_from_block, batch_to_block, ret, retries, initial_retries,
          batch_calls, last_request, requested, prev_failures,
          latest_block_number,
          timestamps, wanted_timestamp, not_before, start_block_number,
          end_block_number, closest_block, closest_diff, probes,
          cache_size, tracked_rank, tracked_value, has_code,
          tracked_returned, ic_last>>

retryableVars == <<max_attempts, attempt, func_calls, func_fails>>
eventsVars == <<chain_logs, from_block, to_block, batch_size,
                batch_from_block, batch_to_block, ret, retries,
                initial_retries, batch_calls, last_request, requested,
                prev_failures>>
locatorVars == <<latest_block_number, timestamps, wanted_timestamp,
                 not_before, start_block_number, end_block_number,
                 closest_block, closest_diff, probes>>
cacheVars == <<cache_size, tracked_rank, tracked_value, has_code,
               tracked_returned, ic_last>>

\* ---------------------------------------------------------------- values
Min(a, b) == IF a <= b THEN a ELSE b

None == [type |-> "None"]
NoResult == [kind |-> "running"]
Returned(v) == [kind |-> "return", value |-> v]
Raised(e) == [kind |-> "raise", error |-> e]

RpcErrors == {[type |-> "RpcError", id |-> i] : i \in 1..NumRpcErrors}
ValueError == [type |-> "ValueError"]
FuncValues == 1..NumValues
Ok(v) == [type |-> "ok", value |-> v]

\* The wrapped func of a retryable call: it raises on its first func_fails
\* invocations and returns a value afterwards.
Forever == MaxFuncFails + 1
FuncRaises(i) == func_fails = Forever \/ i <= func_fails

\* ------------------------------------------------------ exponential_sleep
\* The number of seconds exponential_sleep(attempt, max_sleep_time) sleeps.
exponential_sleep(a, max_sleep_time) == Min(2 ^ a, max_sleep_time)

\* ---------------------------------------------------------------- raise
\* `raise` / `raise e` in an except clause: the caught exception itself
\* leaves the function.
WrappedReraise(e, attempts) ==
    [type |-> "RetriesExhaustedError", cause |-> e, attempts |-> attempts]

Reraise(e, attempts) == e

\* ----------------------------------------------------- retryable.wrapped
\* The budget test of the except clause.
ExhaustedOffByOne(a, m) == a + 1 >= m

AttemptsExhausted(a, m) == a >= m

\* The argument retryable passes to exponential_sleep.
RetryableSleepArgNext(a) == a + 1

RetryableSleepArg(a) == a

\* func returns: wrapped returns its value.
RetryableSuccess ==
    /\ call = "retryable" /\ pc = "try"
    /\ ~FuncRaises(func_calls + 1)
    /\ \E v \in FuncValues :
        /\ func_calls' = func_calls + 1
        /\ last_outcome' = Ok(v)
        /\ result' = Returned(v)
        /\ pc' = "done"
    /\ UNCHANGED <<call, sleeps, max_attempts, attempt, func_fails>>
    /\ UNCHANGED eventsVars
    /\ UNCHANGED locatorVars
    /\ UNCHANGED cacheVars

\* func raises and attempts remain: sleep, count the attempt, loop.
RetryableRetry ==
    /\ call = "retryable" /\ pc = "try"
    /\ FuncRaises(func_calls + 1)
    /\ \E e \in RpcErrors :
        /\ ~AttemptsExhausted(attempt, max_attempts)
        /\ func_calls' = func_calls + 1
        /\ last_outcome' = e
        /\ sleeps' = Append(sleeps,
               exponential_sleep(RetryableSleepArg(attempt), DefaultMaxSleepTime))
        /\ attempt' = attempt + 1
    /\ UNCHANGED <<call, pc, result, max_attempts, func_fails>>
    /\ UNCHANGED eventsVars
    /\ UNCHANGED locatorVars
    /\ UNCHANGED cacheVars

\* func raises and attempt >= max_attempts: the exception is re-raised.
RetryableExhausted ==
    /\ call = "retryable" /\ pc = "try"
    /\ FuncRaises(func_calls + 1)
    /\ \E e \in RpcErrors :
        /\ AttemptsExhausted(attempt, max_attempts)
        /\ func_calls' = func_calls + 1
        /\ last_outcome' = e
        /\ result' = Raised(Reraise(e, func_calls + 1))
        /\ pc' = "done"
    /\ UNCHANGED <<call, sleeps, max_attempts, attempt, func_fails>>
    /\ UNCHANGED eventsVars
    /\ UNCHANGED locatorVars
    /\ UNCHANGED cacheVars

\* -------------------------------------------------------- event.getLogs
\* The event record of block b.
EventRecord(b) == [blockNumber |-> b]

RECURSIVE GetLogs(_, _, _)
\* What getLogs(fromBlock, toBlock) returns on success: the records of the
\* blocks fromBlock..toBlock, ascending by block.
GetLogs(logs, fromBlock, toBlock) ==
    IF toBlock < fromBlock THEN <<>>
    ELSE GetLogs(logs, fromBlock, toBlock - 1)
             \o (IF toBlock \in logs THEN <<EventRecord(toBlock)>> ELSE <<>>)

\* ------------------------------------------------------------ get_events
\* batch_to_block = min(batch_from_block + batch_size, to_block)
BatchToBlockNoClamp(bf, bs, tb) == bf + bs

BatchToBlockWide(bf, bs, tb) == Min(bf + bs + 1, tb)

BatchToBlock(bf, bs, tb) == Min(bf + bs, tb)

\* batch_from_block = batch_to_block + 1
NextBatchFromSame(bt) == bt

NextBatchFrom(bt) == bt + 1

\* The range check at the top of get_events.
RangeInvalidNever(fb, tb) == FALSE

RangeInvalid(fb, tb) == tb < fb

\* to_block < from_block: ValueError, nothing else happens.
GetEventsInvalidRange ==
    /\ call = "get_events" /\ pc = "start"
    /\ RangeInvalid(from_block, to_block)
    /\ result' = Raised(ValueError)
    /\ pc' = "done"
    /\ UNCHANGED <<call, last_outcome, sleeps>>
    /\ UNCHANGED retryableVars
    /\ UNCHANGED cacheVars
    /\ UNCHANGED locatorVars
    /\ UNCHANGED eventsVars

\* ret = []; batch_from_block = from_block
GetEventsBegin ==
    /\ call = "get_events" /\ pc = "start"
    /\ ~RangeInvalid(from_block, to_block)
    /\ ret' = <<>>
    /\ batch_from_block' = from_block
    /\ pc' = "loop"
    /\ UNCHANGED <<call, result, last_outcome, sleeps>>
    /\ UNCHANGED retryableVars
    /\ UNCHANGED cacheVars
    /\ UNCHANGED locatorVars
    /\ UNCHANGED <<chain_logs, from_block, to_block, batch_size,
                   batch_to_block, retries, initial_retries, batch_calls,
                   last_request, requested, prev_failures>>

\* Loop test true: compute batch_to_block and enter
\* get_event_batch_with_retries with the default retries.
GetEventsNextBatchSharedBudget ==
    /\ call = "get_events" /\ pc = "loop"
    /\ batch_from_block <= to_block
    /\ batch_to_block' = BatchToBlock(batch_from_block, batch_size, to_block)
    /\ retries' = IF requested = <<>> THEN DefaultRetries ELSE retries
    /\ initial_retries' = DefaultRetries
    /\ batch_calls' = 0
    /\ sleeps' = <<>>
    /\ pc' = "batch_try"
    /\ UNCHANGED <<call, result, last_outcome>>
    /\ UNCHANGED retryableVars
    /\ UNCHANGED cacheVars
    /\ UNCHANGED locatorVars
    /\ UNCHANGED <<chain_logs, from_block, to_block, batch_size,
                   batch_from_block, ret, last_request, requested,
                   prev_failures>>

GetEventsNextBatch ==
    /\ call = "get_events" /\ pc = "loop"
    /\ batch_from_block <= to_block
    /\ batch_to_block' = BatchToBlock(batch_from_block, batch_size, to_block)
    /\ retries' = DefaultRetries
    /\ initial_retries' = DefaultRetries
    /\ batch_calls' = 0
    /\ sleeps' = <<>>
    /\ pc' = "batch_try"
    /\ UNCHANGED <<call, result, last_outcome>>
    /\ UNCHANGED retryableVars
    /\ UNCHANGED cacheVars
    /\ UNCHANGED locatorVars
    /\ UNCHANGED <<chain_logs, from_block, to_block, batch_size,
                   batch_from_block, ret, last_request, requested,
                   prev_failures>>

\* Loop test false: return ret.
GetEventsReturn ==
    /\ call = "get_events" /\ pc = "loop"
    /\ ~(batch_from_block <= to_block)
    /\ result' = Returned(ret)
    /\ pc' = "done"
    /\ UNCHANGED <<call, last_outcome, sleeps>>
    /\ UNCHANGED retryableVars
    /\ UNCHANGED cacheVars
    /\ UNCHANGED locatorVars
    /\ UNCHANGED eventsVars

\* The getLogs call every try of get_event_batch_with_retries starts with.
IssueGetLogsShrunk ==
    LET req == [fromBlock |-> batch_from_block,
                toBlock |-> IF batch_calls = 0 THEN batch_to_block
                            ELSE batch_from_block]
    IN  /\ last_request' = req
        /\ batch_calls' = batch_calls + 1
        /\ requested' = IF batch_calls = 0 THEN Append(requested, req)
                        ELSE requested

IssueGetLogs ==
    LET req == [fromBlock |-> batch_from_block, toBlock |-> batch_to_block]
    IN  /\ last_request' = req
        /\ batch_calls' = batch_calls + 1
        /\ requested' = IF batch_calls = 0 THEN Append(requested, req)
                        ELSE requested

\* The retry budget test of get_event_batch_with_retries.
BatchRetriesExhausted(r) == r <= 0

\* The argument get_event_batch_with_retries passes to exponential_sleep,
\* evaluated after retries -= 1.
BatchSleepArg(initial, r) == initial - r

\* getLogs succeeds: the batch is appended to ret and the cursor moves on.
BatchSuccess ==
    /\ call = "get_events" /\ pc = "batch_try"
    /\ IssueGetLogs
    /\ LET events == GetLogs(chain_logs, batch_from_block, batch_to_block)
       IN  /\ last_outcome' = Ok(events)
           /\ ret' = ret \o events
    /\ batch_from_block' = NextBatchFrom(batch_to_block)
    /\ prev_failures' = batch_calls
    /\ pc' = "loop"
    /\ UNCHANGED <<call, result, sleeps>>
    /\ UNCHANGED retryableVars
    /\ UNCHANGED cacheVars
    /\ UNCHANGED locatorVars
    /\ UNCHANGED <<chain_logs, from_block, to_block, batch_size,
                   batch_to_block, retries, initial_retries>>

\* getLogs raises and retries > 0: retries -= 1, sleep, try again.
BatchRetry ==
    /\ call = "get_events" /\ pc = "batch_try"
    /\ ~BatchRetriesExhausted(retries)
    /\ \E e \in RpcErrors :
        /\ IssueGetLogs
        /\ last_outcome' = e
        /\ retries' = retries - 1
        /\ sleeps' = Append(sleeps,
               exponential_sleep(BatchSleepArg(initial_retries, retries - 1),
                                 DefaultMaxSleepTime))
    /\ UNCHANGED <<call, pc, result>>
    /\ UNCHANGED retryableVars
    /\ UNCHANGED cacheVars
    /\ UNCHANGED locatorVars
    /\ UNCHANGED <<chain_logs, from_block, to_block, batch_size,
                   batch_from_block, batch_to_block, ret, initial_retries,
                   prev_failures>>

\* getLogs raises and retries <= 0: `raise e` leaves
\* get_event_batch_with_retries and, uncaught, get_events.
BatchExhaustedSkipped ==
    /\ call = "get_events" /\ pc = "batch_try"
    /\ BatchRetriesExhausted(retries)
    /\ \E e \in RpcErrors :
        /\ IssueGetLogs
        /\ last_outcome' = e
    /\ batch_from_block' = NextBatchFrom(batch_to_block)
    /\ pc' = "loop"
    /\ UNCHANGED <<call, result, sleeps>>
    /\ UNCHANGED retryableVars
    /\ UNCHANGED cacheVars
    /\ UNCHANGED locatorVars
    /\ UNCHANGED <<chain_logs, from_block, to_block, batch_size,
                   batch_to_block, ret, retries, initial_retries,
                   prev_failures>>

BatchExhausted ==
    /\ call = "get_events" /\ pc = "batch_try"
    /\ BatchRetriesExhausted(retries)
    /\ \E e \in RpcErrors :
        /\ IssueGetLogs
        /\ last_outcome' = e
        /\ result' = Raised(Reraise(e, batch_calls + 1))
        /\ pc' = "done"
    /\ UNCHANGED <<call, sleeps>>
    /\ UNCHANGED retryableVars
    /\ UNCHANGED cacheVars
    /\ UNCHANGED locatorVars
    /\ UNCHANGED <<chain_logs, from_block, to_block, batch_size,
                   batch_from_block, batch_to_block, ret, retries,
                   initial_retries, prev_failures>>

\* ------------------------------------------------------ get_closest_block
Abs(x) == IF x < 0 THEN -x ELSE x

BlockNotFound == [type |-> "BlockNotFound"]
LookupError == [type |-> "LookupError"]

\* web3.eth.get_block(n) for a block the chain has.
get_block(n) == [number |-> n, timestamp |-> timestamps[n]]

HasBlock(n) == n \in 1..latest_block_number

\* target_block_number = (start_block_number + end_block_number) // 2
TargetBlockNumber(lo, hi) == (lo + hi) \div 2

\* if abs(diff) < closest_diff
ImprovesNoAbs(diff, best_diff) == diff < best_diff

ImprovesReversed(diff, best_diff) == Abs(diff) > best_diff

ImprovesOrTies(diff, best_diff) == Abs(diff) <= best_diff

Improves(diff, best_diff) == Abs(diff) < best_diff

\* if not_before and closest_block["timestamp"] < wanted_timestamp
WantsNext(nb, block, wanted) == nb /\ block.timestamp < wanted

\* closest_block["number"] + 1
ClosestItself(block) == block.number

NextBlockNumber(block) == block.number + 1

\* The bisection starts between block 1 and web3.eth.block_number.
LocatorBegin ==
    /\ call = "get_closest_block" /\ pc = "start"
    /\ start_block_number' = 1
    /\ end_block_number' = latest_block_number
    /\ closest_block' = None
    /\ closest_diff' = InitialClosestDiff
    /\ pc' = "bisect"
    /\ UNCHANGED <<call, result, last_outcome, sleeps>>
    /\ UNCHANGED retryableVars
    /\ UNCHANGED cacheVars
    /\ UNCHANGED eventsVars
    /\ UNCHANGED <<latest_block_number, timestamps, wanted_timestamp,
                   not_before, probes>>

\* The part of a loop iteration every branch shares: fetch the midpoint and
\* keep it as closest_block when it is strictly nearer.
Probe(block) ==
    LET diff == block.timestamp - wanted_timestamp
    IN  /\ probes' = Append(probes, block.number)
        /\ IF Improves(diff, closest_diff)
           THEN closest_diff' = Abs(diff) /\ closest_block' = block
           ELSE UNCHANGED <<closest_diff, closest_block>>

\* block is after wanted, move end
BisectMoveEnd ==
    /\ call = "get_closest_block" /\ pc = "bisect"
    /\ start_block_number <= end_block_number
    /\ LET block == get_block(TargetBlockNumber(start_block_number,
                                                end_block_number))
       IN  /\ block.timestamp > wanted_timestamp
           /\ Probe(block)
           /\ end_block_number' = block.number - 1
    /\ UNCHANGED <<call, pc, result, last_outcome, sleeps>>
    /\ UNCHANGED retryableVars
    /\ UNCHANGED cacheVars
    /\ UNCHANGED eventsVars
    /\ UNCHANGED <<latest_block_number, timestamps, wanted_timestamp,
                   not_before, start_block_number>>

\* block is before wanted, move start
BisectMoveStartStuck ==
    /\ call = "get_closest_block" /\ pc = "bisect"
    /\ start_block_number <= end_block_number
    /\ LET block == get_block(TargetBlockNumber(start_block_number,
                                                end_block_number))
       IN  /\ block.timestamp < wanted_timestamp
           /\ Probe(block)
           /\ start_block_number' = block.number
    /\ UNCHANGED <<call, pc, result, last_outcome, sleeps>>
    /\ UNCHANGED retryableVars
    /\ UNCHANGED cacheVars
    /\ UNCHANGED eventsVars
    /\ UNCHANGED <<latest_block_number, timestamps, wanted_timestamp,
                   not_before, end_block_number>>

BisectMoveStart ==
    /\ call = "get_closest_block" /\ pc = "bisect"
    /\ start_block_number <= end_block_number
    /\ LET block == get_block(TargetBlockNumber(start_block_number,
                                                end_block_number))
       IN  /\ block.timestamp < wanted_timestamp
           /\ Probe(block)
           /\ start_block_number' = block.number + 1
    /\ UNCHANGED <<call, pc, result, last_outcome, sleeps>>
    /\ UNCHANGED retryableVars
    /\ UNCHANGED cacheVars
    /\ UNCHANGED eventsVars
    /\ UNCHANGED <<latest_block_number, timestamps, wanted_timestamp,
                   not_before, end_block_number>>

\* timestamps are exactly the same, just return block
BisectExactContinues ==
    /\ call = "get_closest_block" /\ pc = "bisect"
    /\ start_block_number <= end_block_number
    /\ LET block == get_block(TargetBlockNumber(start_block_number,
                                                end_block_number))
       IN  /\ block.timestamp = wanted_timestamp
           /\ Probe(block)
           /\ end_block_number' = block.number - 1
    /\ UNCHANGED <<call, pc, result, last_outcome, sleeps>>
    /\ UNCHANGED retryableVars
    /\ UNCHANGED cacheVars
    /\ UNCHANGED eventsVars
    /\ UNCHANGED <<latest_block_number, timestamps, wanted_timestamp,
                   not_before, start_block_number>>

BisectExact ==
    /\ call = "get_closest_block" /\ pc = "bisect"
    /\ start_block_number <= end_block_number
    /\ LET block == get_block(TargetBlockNumber(start_block_number,
                                                end_block_number))
       IN  /\ block.timestamp = wanted_timestamp
           /\ Probe(block)
           /\ result' = Returned(block)
    /\ pc' = "done"
    /\ UNCHANGED <<call, last_outcome, sleeps>>
    /\ UNCHANGED retryableVars
    /\ UNCHANGED cacheVars
    /\ UNCHANGED eventsVars
    /\ UNCHANGED <<latest_block_number, timestamps, wanted_timestamp,
                   not_before, start_block_number, end_block_number>>

\* The loop ended and closest_block is None.
LocatorLookupError ==
    /\ call = "get_closest_block" /\ pc = "bisect"
    /\ ~(start_block_number <= end_block_number)
    /\ closest_block = None
    /\ result' = Raised(LookupError)
    /\ pc' = "done"
    /\ UNCHANGED <<call, last_outcome, sleeps>>
    /\ UNCHANGED retryableVars
    /\ UNCHANGED cacheVars
    /\ UNCHANGED eventsVars
    /\ UNCHANGED locatorVars
    /\ UNCHANGED cacheVars

\* not_before and the closest block is before wanted: the next block is
\* fetched and returned.
LocatorReturnNext ==
    /\ call = "get_closest_block" /\ pc = "bisect"
    /\ ~(start_block_number <= end_block_number)
    /\ closest_block # None
    /\ WantsNext(not_before, closest_block, wanted_timestamp)
    /\ HasBlock(NextBlockNumber(closest_block))
    /\ probes' = Append(probes, NextBlockNumber(closest_block))
    /\ result' = Returned(get_block(NextBlockNumber(closest_block)))
    /\ pc' = "done"
    /\ UNCHANGED <<call, last_outcome, sleeps>>
    /\ UNCHANGED retryableVars
    /\ UNCHANGED cacheVars
    /\ UNCHANGED eventsVars
    /\ UNCHANGED <<latest_block_number, timestamps, wanted_timestamp,
                   not_before, start_block_number, end_block_number,
                   closest_block, closest_diff>>

\* As LocatorReturnNext, but the chain has no next block: get_block raises.
LocatorNextMissing ==
    /\ call = "get_closest_block" /\ pc = "bisect"
    /\ ~(start_block_number <= end_block_number)
    /\ closest_block # None
    /\ WantsNext(not_before, closest_block, wanted_timestamp)
    /\ ~HasBlock(NextBlockNumber(closest_block))
    /\ probes' = Append(probes, NextBlockNumber(closest_block))
    /\ result' = Raised(BlockNotFound)
    /\ pc' = "done"
    /\ UNCHANGED <<call, last_outcome, sleeps>>
    /\ UNCHANGED retryableVars
    /\ UNCHANGED cacheVars
    /\ UNCHANGED eventsVars
    /\ UNCHANGED <<latest_block_number, timestamps, wanted_timestamp,
                   not_before, start_block_number, end_block_number,
                   closest_block, closest_diff>>

\* return closest_block
LocatorReturnClosest ==
    /\ call = "get_closest_block" /\ pc = "bisect"
    /\ ~(start_block_number <= end_block_number)
    /\ closest_block # None
    /\ ~WantsNext(not_before, closest_block, wanted_timestamp)
    /\ result' = Returned(closest_block)
    /\ pc' = "done"
    /\ UNCHANGED <<call, last_outcome, sleeps>>
    /\ UNCHANGED retryableVars
    /\ UNCHANGED cacheVars
    /\ UNCHANGED eventsVars
    /\ UNCHANGED locatorVars
    /\ UNCHANGED cacheVars

\* ----------------------------------------------------------- is_contract
\* is_contract is retryable() under functools.lru_cache(): a call for an
\* address with an entry returns the entry's value and makes the entry the
\* most recently used one; any other call runs the retry loop around
\* get_code and stores what it returns, dropping the least recently used
\* entry when the cache holds LruMaxSize entries.  A call that raises
\* stores nothing.  The model follows the entry of one address; calls for
\* other addresses show only in what they do to that entry's rank and to
\* the size of the cache (a call for another address that raises, or that
\* hits an entry used more recently, changes nothing).
NoCall == [rpc_calls |-> 0, result |-> NoResult]

\* The get_code invocations of a retry loop in which get_code raises
\* `failures` times before it returns.
RpcCallsUntilSuccess(failures) == failures + 1

\* The value of `attempt` at which retryable() re-raises.
ExhaustingAttempt ==
    CHOOSE a \in 0..(DefaultMaxAttempts + 1) :
        /\ AttemptsExhausted(a, DefaultMaxAttempts)
        /\ \A b \in 0..(a - 1) : ~AttemptsExhausted(b, DefaultMaxAttempts)

\* The size of the cache after a new entry is stored.
SizeAfterInsert(size) == IF size < LruMaxSize THEN size + 1 ELSE size

\* Cache hit for the tracked address.
TrackedHitRefetch ==
    /\ call = "is_contract"
    /\ tracked_rank >= 1
    /\ tracked_rank' = 1
    /\ ic_last' = [rpc_calls |-> RpcCallsUntilSuccess(0),
                   result |-> Returned(has_code)]
    /\ tracked_returned' = Returned(has_code)
    /\ UNCHANGED <<cache_size, tracked_value, has_code>>
    /\ UNCHANGED <<call, pc, result, last_outcome, sleeps>>
    /\ UNCHANGED retryableVars
    /\ UNCHANGED eventsVars
    /\ UNCHANGED locatorVars

TrackedHit ==
    /\ call = "is_contract"
    /\ tracked_rank >= 1
    /\ tracked_rank' = 1
    /\ ic_last' = [rpc_calls |-> 0, result |-> Returned(tracked_value)]
    /\ tracked_returned' = Returned(tracked_value)
    /\ UNCHANGED <<cache_size, tracked_value, has_code>>
    /\ UNCHANGED <<call, pc, result, last_outcome, sleeps>>
    /\ UNCHANGED retryableVars
    /\ UNCHANGED eventsVars
    /\ UNCHANGED locatorVars

\* Cache miss for the tracked address, get_code returns within the retry
\* budget: the value is stored as the most recently used entry.
TrackedFetch ==
    /\ call = "is_contract"
    /\ tracked_rank = 0
    /\ \E k \in 0..ExhaustingAttempt :
        ic_last' = [rpc_calls |-> RpcCallsUntilSuccess(k),
                    result |-> Returned(has_code)]
    /\ tracked_returned' = Returned(has_code)
    /\ tracked_value' = has_code
    /\ tracked_rank' = 1
    /\ cache_size' = SizeAfterInsert(cache_size)
    /\ UNCHANGED has_code
    /\ UNCHANGED <<call, pc, result, last_outcome, sleeps>>
    /\ UNCHANGED retryableVars
    /\ UNCHANGED eventsVars
    /\ UNCHANGED locatorVars

\* Cache miss for the tracked address, get_code raises until the retry
\* budget is exhausted: the error leaves is_contract, nothing is stored.
TrackedRaise ==
    /\ call = "is_contract"
    /\ tracked_rank = 0
    /\ \E e \in RpcErrors :
        LET k == ExhaustingAttempt + 1
        IN  ic_last' = [rpc_calls |-> k, result |-> Raised(Reraise(e, k))]
    /\ UNCHANGED <<cache_size, tracked_rank, tracked_value, has_code,
                   tracked_returned>>
    /\ UNCHANGED <<call, pc, result, last_outcome, sleeps>>
    /\ UNCHANGED retryableVars
    /\ UNCHANGED eventsVars
    /\ UNCHANGED locatorVars

\* Cache hit for another address whose entry was used less recently than
\* the tracked one: it becomes the most recently used entry.
OtherHit ==
    /\ call = "is_contract"
    /\ tracked_rank >= 1
    /\ tracked_rank < cache_size
    /\ tracked_rank' = tracked_rank + 1
    /\ UNCHANGED <<cache_size, tracked_value, has_code, tracked_returned,
                   ic_last>>
    /\ UNCHANGED <<call, pc, result, last_outcome, sleeps>>
    /\ UNCHANGED retryableVars
    /\ UNCHANGED eventsVars
    /\ UNCHANGED locatorVars

\* Cache miss for another address, get_code returns: its value is stored,
\* and with a full cache the least recently used entry is dropped.
OtherFetch ==
    /\ call = "is_contract"
    /\ cache_size' = SizeAfterInsert(cache_size)
    /\ IF tracked_rank = 0
       THEN UNCHANGED <<tracked_rank, tracked_value>>
       ELSE IF cache_size = LruMaxSize /\ tracked_rank = cache_size
            THEN tracked_rank' = 0 /\ tracked_value' = None
            ELSE tracked_rank' = tracked_rank + 1 /\ UNCHANGED tracked_value
    /\ cache_size' # cache_size \/ tracked_rank' # tracked_rank
    /\ UNCHANGED <<has_code, tracked_returned, ic_last>>
    /\ UNCHANGED <<call, pc, result, last_outcome, sleeps>>
    /\ UNCHANGED retryableVars
    /\ UNCHANGED eventsVars
    /\ UNCHANGED locatorVars

\* ------------------------------------------------------------------ Init
Blocks == 0..MaxBlock

IdleRetryable ==
    max_attempts = 0 /\ attempt = 0 /\ func_calls = 0 /\ func_fails = 0

IdleEvents ==
    /\ chain_logs = {}
    /\ from_block = 0 /\ to_block = 0 /\ batch_size = 0
    /\ batch_from_block = 0 /\ batch_to_block = 0
    /\ ret = <<>>
    /\ retries = 0 /\ initial_retries = 0 /\ batch_calls = 0
    /\ last_request = None
    /\ requested = <<>>
    /\ prev_failures = 0

IdleLocator ==
    /\ latest_block_number = 0
    /\ timestamps = <<>>
    /\ wanted_timestamp = 0
    /\ not_before = FALSE
    /\ start_block_number = 0 /\ end_block_number = 0
    /\ closest_block = None
    /\ closest_diff = 0
    /\ probes = <<>>

IdleCache ==
    /\ cache_size = 0
    /\ tracked_rank = 0
    /\ tracked_value = None
    /\ has_code = FALSE
    /\ tracked_returned = NoResult
    /\ ic_last = NoCall

InitCommon == result = NoResult /\ last_outcome = None /\ sleeps = <<>>

\* A call of a function decorated with @retryable(max_attempts=m).
InitRetryable ==
    /\ call = "retryable" /\ pc = "try"
    /\ InitCommon
    /\ max_attempts \in 0..MaxAttemptsArg
    /\ attempt = 0
    /\ func_calls = 0
    /\ func_fails \in (0..MaxFuncFails) \cup {Forever}
    /\ IdleEvents
    /\ IdleLocator
    /\ IdleCache

\* A call get_events(event, from_block, to_block, batch_size).
InitGetEvents ==
    /\ call = "get_events" /\ pc = "start"
    /\ InitCommon
    /\ IdleRetryable
    /\ chain_logs \in SUBSET Blocks
    /\ from_block \in Blocks
    /\ to_block \in Blocks
    /\ batch_size \in 0..MaxBatchSize
    /\ batch_from_block = 0 /\ batch_to_block = 0
    /\ ret = <<>>
    /\ retries = 0 /\ initial_retries = 0 /\ batch_calls = 0
    /\ last_request = None
    /\ requested = <<>>
    /\ prev_failures = 0
    /\ IdleLocator
    /\ IdleCache

\* The end-to-end scenario: 100 blocks, T(n) = 1000 * n, wanted timestamp
\* 50500.
Scenario == [n |-> 100, ts |-> [b \in 1..100 |-> 1000 * b], wanted |-> 50500]

\* The chains and targets get_closest_block is called with: every
\* assignment of timestamps to blocks 1..latest_block_number within the
\* bounds, and the end-to-end scenario.
LocatorInputs ==
    UNION {[n : {n}, ts : [1..n -> 1..MaxTimestamp], wanted : 0..(MaxTimestamp + 1)]
           : n \in 0..MaxLatestBlock}
    \cup {Scenario}

\* A call get_closest_block(web3, wanted_datetime, not_before=...).
InitLocator ==
    /\ call = "get_closest_block" /\ pc = "start"
    /\ InitCommon
    /\ IdleRetryable
    /\ IdleEvents
    /\ IdleCache
    /\ \E in \in LocatorInputs :
        /\ latest_block_number = in.n
        /\ timestamps = in.ts
        /\ wanted_timestamp = in.wanted
    /\ not_before \in BOOLEAN
    /\ start_block_number = 0 /\ end_block_number = 0
    /\ closest_block = None
    /\ closest_diff = 0
    /\ probes = <<>>

Init == InitRetryable \/ InitGetEvents \/ InitLocator

Next ==
    \/ RetryableSuccess
    \/ RetryableRetry
    \/ RetryableExhausted
    \/ GetEventsInvalidRange
    \/ GetEventsBegin
    \/ GetEventsNextBatch
    \/ GetEventsReturn
    \/ BatchSuccess
    \/ BatchRetry
    \/ BatchExhausted
    \/ LocatorBegin
    \/ BisectMoveEnd
    \/ BisectMoveStart
    \/ BisectExact
    \/ LocatorLookupError
    \/ LocatorReturnNext
    \/ LocatorNextMissing
    \/ LocatorReturnClosest

Spec == Init /\ [][Next]_vars

\* One call of get_closest_block, run to its end: the function has no
\* blocking statement but its RPC calls, which are taken to answer.
NextLocator ==
    \/ LocatorBegin
    \/ BisectMoveEnd
    \/ BisectMoveStart
    \/ BisectExact
    \/ LocatorLookupError
    \/ LocatorReturnNext
    \/ LocatorNextMissing
    \/ LocatorReturnClosest

LocatorFairSpec ==
    InitLocator /\ [][NextLocator]_vars /\ WF_vars(NextLocator)

\* A process that calls is_contract again and again, starting with an empty
\* cache.
InitCache ==
    /\ call = "is_contract" /\ pc = "idle"
    /\ InitCommon
    /\ IdleRetryable
    /\ IdleEvents
    /\ IdleLocator
    /\ cache_size = 0
    /\ tracked_rank = 0
    /\ tracked_value = None
    /\ has_code \in BOOLEAN
    /\ tracked_returned = NoResult
    /\ ic_last = NoCall

NextCache ==
    \/ TrackedHit
    \/ TrackedFetch
    \/ OtherHit
    \/ OtherFetch
    \/ TrackedRaise

CacheSpec == InitCache /\ [][NextCache]_vars

\* ================================================================ claims
RECURSIVE Pow2(_)
Pow2(n) == IF n = 0 THEN 1 ELSE 2 * Pow2(n - 1)

Last(seq) == seq[Len(seq)]

\* rs is a chain of non-empty ranges that starts at fb, each starting right
\* after the one before it.
IsChainFrom(rs, fb) ==
    /\ \A i \in 1..Len(rs) : rs[i].fromBlock <= rs[i].toBlock
    /\ Len(rs) >= 1 => rs[1].fromBlock = fb
    /\ \A i \in 1..(Len(rs) - 1) : rs[i + 1].fromBlock = rs[i].toBlock + 1

Monotonic == \A i \in 1..(latest_block_number - 1) :
                 timestamps[i] <= timestamps[i + 1]

StrictlyIncreasing == \A i \in 1..(latest_block_number - 1) :
                          timestamps[i] < timestamps[i + 1]

Distance(b) == Abs(timestamps[b] - wanted_timestamp)

EventsReturned ==
    call = "get_events" /\ pc = "done" /\ result.kind = "return"

LocatorReturned ==
    call = "get_closest_block" /\ pc = "done" /\ result.kind = "return"

\* The most recent getLogs call raised, no retry is left and no other try
\* of the sub-range follows.
TerminalFailure ==
    /\ call = "get_events"
    /\ last_outcome \in RpcErrors
    /\ BatchRetriesExhausted(retries)
    /\ pc # "batch_try"

\* C1: for from_block <= to_block and batch_size >= 1 the sub-ranges
\* get_events requests form, at every moment, a gapless chain without
\* overlap that starts at from_block; when the call returns, the chain ends
\* at to_block and the returned list is the list one getLogs over
\* [from_block, to_block] returns.
C1_PartitionAndConcat ==
    (call = "get_events" /\ from_block <= to_block /\ batch_size >= 1) =>
        /\ IsChainFrom(requested, from_block)
        /\ EventsReturned =>
            /\ Len(requested) >= 1
            /\ Last(requested).toBlock = to_block
            /\ result.value = GetLogs(chain_logs, from_block, to_block)

C1_Witness ==
    /\ EventsReturned
    /\ batch_size >= 1
    /\ Len(requested) >= 2
    /\ Len(result.value) >= 2
    /\ result.value[1].blockNumber # Last(result.value).blockNumber

\* C2: a func that raises exactly k times and then returns, wrapped with
\* max_attempts > k, is invoked k + 1 times, its value is returned, and the
\* sleeps are min(1, 256), min(2, 256), ..., min(2^(k-1), 256) in that
\* order (none for k = 0).
C2_BackoffSchedule ==
    (/\ call = "retryable" /\ pc = "done"
     /\ func_fails # Forever /\ func_fails < max_attempts) =>
        /\ result.kind = "return"
        /\ result.value = last_outcome.value
        /\ func_calls = func_fails + 1
        /\ sleeps = [i \in 1..func_fails |->
                        Min(Pow2(i - 1), DefaultMaxSleepTime)]

C2_Witness ==
    /\ call = "retryable" /\ pc = "done"
    /\ func_fails = 10 /\ max_attempts = 11
    /\ result.kind = "return"
    /\ sleeps[9] = 256 /\ sleeps[10] = 256

\* C3: a func that always raises, wrapped with max_attempts = m, is invoked
\* at most m + 1 times with at most m sleeps, one sleep between two
\* invocations; the call ends raising after exactly m + 1 invocations and m
\* sleeps.
C3_ExhaustsAfterMPlusOne ==
    (call = "retryable" /\ func_fails = Forever) =>
        /\ func_calls <= max_attempts + 1
        /\ Len(sleeps) <= max_attempts
        /\ pc = "try" => Len(sleeps) = func_calls
        /\ pc = "done" =>
            /\ result.kind = "raise"
            /\ func_calls = max_attempts + 1
            /\ Len(sleeps) = max_attempts

C3_Witness ==
    /\ call = "retryable" /\ func_fails = Forever /\ pc = "done"
    /\ max_attempts = 10
    /\ func_calls = 11
    /\ result.kind = "raise"

\* C4: with not_before = false, non-decreasing timestamps and at least one
\* block, get_closest_block returns a block of the chain whose distance to
\* the wanted timestamp is minimal over all blocks 1..latest_block_number.
C4_ReturnsNearest ==
    (/\ call = "get_closest_block" /\ pc = "done"
     /\ ~not_before /\ Monotonic /\ latest_block_number >= 1) =>
        /\ result.kind = "return"
        /\ HasBlock(result.value.number)
        /\ result.value = get_block(result.value.number)
        /\ \A b \in 1..latest_block_number :
               Distance(result.value.number) <= Distance(b)

C4_Witness ==
    /\ LocatorReturned /\ ~not_before /\ Monotonic
    /\ Len(probes) >= 3
    /\ result.value.number # Last(probes)
    /\ result.value.timestamp # wanted_timestamp
    /\ \E k \in 1..(latest_block_number - 1) :
           /\ timestamps[k] < wanted_timestamp
           /\ wanted_timestamp < timestamps[k + 1]
           /\ Distance(k) # Distance(k + 1)

\* C5: with not_before = true, non-decreasing timestamps (equal timestamps
\* on consecutive blocks allowed) and a wanted timestamp not after the
\* latest block's, the returned block's timestamp is never before the
\* wanted timestamp.
C5_NeverEarlier ==
    (/\ LocatorReturned /\ not_before /\ Monotonic
     /\ latest_block_number >= 1
     /\ wanted_timestamp <= timestamps[latest_block_number]) =>
        result.value.timestamp >= wanted_timestamp

\* C6: get_events with to_block < from_block issues no getLogs request in
\* any state, and ends raising ValueError.
C6_InvalidRangeNoRpc ==
    (call = "get_events" /\ to_block < from_block) =>
        /\ last_request = None
        /\ requested = <<>>
        /\ batch_calls = 0
        /\ pc \in {"start", "done"}
        /\ pc = "done" => result = Raised(ValueError)

C6_Witness ==
    /\ call = "get_events" /\ to_block < from_block /\ pc = "done"
    /\ result.kind = "raise"

\* C7: once a sub-range request of get_events has failed with no retry
\* left, get_events is over: it has raised that error instead of returning
\* a list, and the failed request is the last one it issued.
C7_TerminalFailureAborts ==
    TerminalFailure =>
        /\ pc = "done"
        /\ result.kind = "raise"
        /\ result.error = last_outcome
        /\ last_request = Last(requested)
        /\ last_request = [fromBlock |-> batch_from_block,
                           toBlock |-> batch_to_block]

C7_Witness ==
    /\ TerminalFailure
    /\ Len(ret) >= 1
    /\ Len(requested) >= 2
    /\ batch_to_block < to_block

\* C8 as claimed: the error raised when the retry budget is exhausted is a
\* RetriesExhaustedError that wraps the last underlying error as its cause
\* and carries the number of attempts made.
C8_WrapsLastError ==
    (/\ call \in {"retryable", "get_events"} /\ pc = "done"
     /\ result.kind = "raise" /\ last_outcome \in RpcErrors) =>
        /\ result.error.type = "RetriesExhaustedError"
        /\ result.error.cause = last_outcome
        /\ result.error.attempts =
               (IF call = "retryable" THEN func_calls ELSE batch_calls)

\* C8 amended: the error raised when the retry budget is exhausted is the
\* last underlying error itself, unchanged: no other error type wraps it
\* and it carries no attempt count.
C8_PropagatesLastError ==
    (/\ call \in {"retryable", "get_events"} /\ pc = "done"
     /\ result.kind = "raise" /\ last_outcome \in RpcErrors) =>
        /\ result.error = last_outcome
        /\ result.error \in RpcErrors

C8_Witness ==
    /\ call = "get_events" /\ pc = "done"
    /\ result.kind = "raise"
    /\ result.error \in RpcErrors
    /\ batch_calls = DefaultRetries + 1
    /\ Len(requested) >= 2

\* C9: for from_block <= to_block and batch_size >= 0, every getLogs
\* request of get_events has fromBlock <= toBlock and
\* toBlock - fromBlock <= batch_size, and every requested sub-range but the
\* last has toBlock - fromBlock = batch_size.
C9_RequestWidth ==
    (call = "get_events" /\ from_block <= to_block) =>
        /\ last_request # None =>
            /\ last_request.fromBlock <= last_request.toBlock
            /\ last_request.toBlock - last_request.fromBlock <= batch_size
            /\ last_request = Last(requested)
        /\ \A i \in 1..(Len(requested) - 1) :
               requested[i].toBlock - requested[i].fromBlock = batch_size

C9_Witness ==
    /\ EventsReturned
    /\ batch_size >= 1
    /\ Len(requested) >= 2
    /\ Last(requested).toBlock - Last(requested).fromBlock < batch_size

\* C10: with not_before = true, strictly increasing timestamps and a wanted
\* timestamp strictly between those of blocks k and k + 1, the call returns
\* block k + 1, whichever of the two the search kept as closest.
C10_ReturnsSuccessor ==
    (/\ call = "get_closest_block" /\ pc = "done"
     /\ not_before /\ StrictlyIncreasing) =>
        \A k \in 1..(latest_block_number - 1) :
            (timestamps[k] < wanted_timestamp
                 /\ wanted_timestamp < timestamps[k + 1]) =>
                result = Returned(get_block(k + 1))

C10_Witness ==
    /\ LocatorReturned /\ not_before
    /\ latest_block_number = Scenario.n
    /\ timestamps = Scenario.ts
    /\ wanted_timestamp = Scenario.wanted
    /\ closest_block.number = 50
    /\ result.value.number = 51
\* The block fetched after the loop, for not_before, is the last of probes.
SuccessorFetched ==
    /\ call = "get_closest_block" /\ pc = "done"
    /\ ~(start_block_number <= end_block_number)
    /\ closest_block # None
    /\ not_before /\ closest_block.timestamp < wanted_timestamp

\* The block numbers fetched by the bisection loop, in order.
LoopProbes ==
    IF SuccessorFetched THEN SubSeq(probes, 1, Len(probes) - 1) ELSE probes

RECURSIVE Log2Floor(_)
Log2Floor(n) == IF n <= 1 THEN 0 ELSE 1 + Log2Floor(n \div 2)

\* C11: on non-decreasing timestamps with some block's timestamp equal to
\* the wanted one, get_closest_block (either not_before) returns a block
\* with exactly that timestamp, and the first probe with that timestamp is
\* the last block fetch of the call.
C11_ExactMatchShortCircuits ==
    (/\ call = "get_closest_block" /\ Monotonic
     /\ \E b \in 1..latest_block_number : timestamps[b] = wanted_timestamp) =>
        /\ \A i \in 1..(Len(probes) - 1) :
               timestamps[probes[i]] # wanted_timestamp
        /\ pc = "done" =>
            /\ result.kind = "return"
            /\ result.value.timestamp = wanted_timestamp
            /\ result.value = get_block(Last(probes))

C11_Witness ==
    /\ LocatorReturned /\ Monotonic /\ not_before
    /\ Len(probes) >= 2
    /\ result.value.timestamp = wanted_timestamp
    /\ start_block_number < end_block_number
    /\ Cardinality({b \in 1..latest_block_number :
                       timestamps[b] = wanted_timestamp}) >= 2

\* C12: get_closest_block ends raising LookupError exactly when
\* latest_block_number < 1, and then it has fetched no block.
C12_LookupErrorIffEmpty ==
    call = "get_closest_block" =>
        /\ latest_block_number < 1 => probes = <<>>
        /\ pc = "done" =>
            (result = Raised(LookupError) <=> latest_block_number < 1)

C12_Witness ==
    /\ call = "get_closest_block" /\ pc = "done"
    /\ latest_block_number = 0
    /\ result = Raised(LookupError)
    /\ probes = <<>>

\* C15: every block number get_closest_block passes to get_block, and the
\* number of the block it returns, is in 1..latest_block_number.
C15_FetchesInRange ==
    call = "get_closest_block" =>
        /\ \A i \in 1..Len(probes) : probes[i] \in 1..latest_block_number
        /\ (pc = "done" /\ result.kind = "return") =>
               result.value.number \in 1..latest_block_number

\* C16: for latest_block_number >= 1 and any timestamps, monotonic or not,
\* every continuing iteration of the bisection strictly shrinks
\* [start_block_number, end_block_number], no block is probed twice, the
\* loop fetches at most floor(log2(latest_block_number)) + 1 blocks, the
\* call ends, and with not_before = false it ends returning a probed block.
C16_LoopInvariant ==
    (call = "get_closest_block" /\ latest_block_number >= 1) =>
        /\ \A i, j \in 1..Len(LoopProbes) :
               LoopProbes[i] = LoopProbes[j] => i = j
        /\ Len(LoopProbes) <= Log2Floor(latest_block_number) + 1
        /\ (pc = "done" /\ ~not_before) =>
            /\ result.kind = "return"
            /\ \E i \in 1..Len(LoopProbes) :
                   result.value = get_block(LoopProbes[i])

C16_IntervalShrinks ==
    (pc = "bisect" /\ pc' = "bisect" /\ probes' # probes) =>
        (end_block_number' - start_block_number'
             < end_block_number - start_block_number)

C16_BisectionTerminates ==
    /\ []C16_LoopInvariant
    /\ [][C16_IntervalShrinks]_vars
    /\ <>(pc = "done")

C16_Witness ==
    /\ LocatorReturned /\ ~not_before /\ ~Monotonic
    /\ latest_block_number = 4
    /\ Len(probes) = 3

\* C19: closest_block is replaced only by a probed block strictly nearer
\* than closest_diff: at every point it is the earliest-probed block among
\* the probed blocks of minimal distance, and closest_diff is its distance.
C19_FirstNearestKept ==
    call = "get_closest_block" =>
        IF closest_block = None THEN LoopProbes = <<>> \/ pc = "start"
        ELSE /\ closest_block = get_block(closest_block.number)
             /\ closest_diff = Distance(closest_block.number)
             /\ \E i \in 1..Len(LoopProbes) :
                    /\ LoopProbes[i] = closest_block.number
                    /\ \A j \in 1..Len(LoopProbes) :
                           /\ Distance(LoopProbes[j]) >= closest_diff
                           /\ j < i => Distance(LoopProbes[j]) > closest_diff

C19_Witness ==
    /\ LocatorReturned /\ ~not_before
    /\ latest_block_number = Scenario.n
    /\ timestamps = Scenario.ts
    /\ wanted_timestamp = Scenario.wanted
    /\ result.value.number = 50
    /\ Last(probes) = 51
    /\ Distance(51) = Distance(50)
\* C13 as claimed: the sleeps of get_event_batch_with_retries for one
\* sub-range are min(2^0, 256), min(2^1, 256), ... in that order, as in
\* retryable, and a sub-range is requested at most 11 times.
C13_BatchBackoffAsRetryable ==
    call = "get_events" =>
        /\ \A i \in 1..Len(sleeps) :
               sleeps[i] = Min(Pow2(i - 1), DefaultMaxSleepTime)
        /\ batch_calls <= DefaultRetries + 1
        /\ TerminalFailure => batch_calls = DefaultRetries + 1

CeilDiv(a, b) == (a + b - 1) \div b

\* C14: for from_block <= to_block and batch_size >= 0 every completed loop
\* iteration of get_events strictly increases batch_from_block, and a call
\* that returns has fetched exactly
\* ceil((to_block - from_block + 1) / (batch_size + 1)) sub-ranges (never
\* more at any point); from_block = to_block gives exactly one.
C14_FetchCount ==
    (call = "get_events" /\ from_block <= to_block) =>
        LET n == CeilDiv(to_block - from_block + 1, batch_size + 1)
        IN  /\ Len(requested) <= n
            /\ EventsReturned => Len(requested) = n
            /\ (EventsReturned /\ from_block = to_block) => Len(requested) = 1

C14_CursorIncreases ==
    (call = "get_events" /\ pc = "batch_try" /\ pc' = "loop") =>
        batch_from_block' > batch_from_block

C14_CursorAndCount == []C14_FetchCount /\ [][C14_CursorIncreases]_vars

C14_Witness ==
    /\ EventsReturned
    /\ batch_size = 0
    /\ Len(requested) >= 3

RECURSIVE ConcatLogs(_)
\* The records of the sub-ranges rs, in the order of rs.
ConcatLogs(rs) ==
    IF rs = <<>> THEN <<>>
    ELSE ConcatLogs(SubSeq(rs, 1, Len(rs) - 1))
             \o GetLogs(chain_logs, Last(rs).fromBlock, Last(rs).toBlock)

\* The requested sub-ranges whose request has succeeded.
Fetched ==
    IF \/ pc = "batch_try" /\ batch_calls >= 1
       \/ pc = "done" /\ result.kind = "raise" /\ last_request # None
    THEN SubSeq(requested, 1, Len(requested) - 1)
    ELSE requested

\* C17: get_events requests its sub-ranges in strictly increasing block
\* order, one after the other: a new sub-range is requested only after the
\* request before it succeeded and starts right after it, a retry repeats
\* the range of the failed request unchanged, and ret holds the records of
\* the fetched sub-ranges in that order.
C17_OrderedState ==
    call = "get_events" =>
        /\ \A i, j \in 1..Len(requested) :
               i < j => requested[i].toBlock < requested[j].fromBlock
        /\ pc # "start" => ret = ConcatLogs(Fetched)

C17_SequentialStep ==
    call = "get_events" =>
        /\ (batch_calls' = batch_calls + 1 /\ batch_calls >= 1) =>
               (last_request' = last_request /\ requested' = requested)
        /\ (requested' # requested /\ requested # <<>>) =>
               /\ last_outcome.type = "ok"
               /\ last_request'.fromBlock = last_request.toBlock + 1
               /\ requested' = Append(requested, last_request')

C17_SequentialInOrder == []C17_OrderedState /\ [][C17_SequentialStep]_vars

C17_Witness ==
    /\ call = "get_events" /\ pc = "batch_try"
    /\ Len(requested) >= 2
    /\ batch_calls >= 2
    /\ Len(ret) >= 1

\* C18: every sub-range of get_events starts with the full retry budget
\* and no sleep made: the budget left and the sleeps depend only on the
\* failed requests of the current sub-range, whatever earlier sub-ranges
\* spent, and get_events raises an RPC error only after 11 failed requests
\* of one sub-range.
C18_RetryStatePerSubRange ==
    call = "get_events" =>
        /\ pc = "batch_try" =>
            /\ initial_retries = DefaultRetries
            /\ retries = DefaultRetries - batch_calls
            /\ sleeps = [i \in 1..batch_calls |->
                            exponential_sleep(i, DefaultMaxSleepTime)]
        /\ (pc = "done" /\ result.kind = "raise" /\ result.error \in RpcErrors)
               => batch_calls = DefaultRetries + 1

C18_Witness ==
    /\ EventsReturned
    /\ Len(requested) >= 2
    /\ prev_failures = DefaultRetries
    /\ batch_calls = DefaultRetries + 1
\* A step in which is_contract is called for the tracked address.
TrackedCallStep ==
    ic_last' # ic_last \/ (tracked_rank # 1 /\ tracked_rank' = 1)

\* A call for the tracked address that raises stores nothing, and the call
\* for it after one that raised queries the RPC again.
C20_FailureStoresNothing ==
    /\ (TrackedCallStep /\ ic_last'.result.kind = "raise") =>
           /\ tracked_rank' = 0 /\ tracked_value' = None
           /\ cache_size' = cache_size
    /\ (TrackedCallStep /\ ic_last.result.kind = "raise") =>
           ic_last'.rpc_calls >= 1

\* C20 as claimed: once is_contract has returned a value for an address,
\* every later call for it returns that value without an RPC call, however
\* many other addresses are queried in between; a call that raises stores
\* nothing.
C20_NeverEvictedStep ==
    /\ (tracked_returned # NoResult /\ TrackedCallStep) =>
           /\ ic_last'.rpc_calls = 0
           /\ ic_last'.result = tracked_returned
    /\ C20_FailureStoresNothing

C20_CacheState ==
    call = "is_contract" =>
        /\ cache_size <= LruMaxSize
        /\ tracked_rank <= cache_size
        /\ tracked_rank >= 1 => tracked_returned = Returned(tracked_value)
        /\ (tracked_rank = 0 /\ tracked_returned # NoResult) =>
               cache_size = LruMaxSize

C20_LruStep ==
    /\ (tracked_rank >= 1 /\ TrackedCallStep) =>
           /\ ic_last'.rpc_calls = 0
           /\ ic_last'.result = tracked_returned
           /\ tracked_rank' = 1
    /\ (tracked_rank >= 1 /\ tracked_rank' = 0) =>
           (tracked_rank = LruMaxSize /\ cache_size = LruMaxSize)
    /\ (tracked_rank = 0 /\ TrackedCallStep) => ic_last'.rpc_calls >= 1
    /\ C20_FailureStoresNothing

====
